---- MODULE Spec2Model ----
\* Model of the data reconciliation and caching engine of sahkon-kulutus:
\* DataProcessor (services/dataProcessor.ts, both class definitions of the
\* file), EleniaService (services/eleniaService.ts) and VattenfallService.
EXTENDS Integers, Sequences, FiniteSets, TLC

\* ------------------------------------------------------------------ bounds
MaxMonth == 2
MaxDay == 2
\* longest hourly_values / hourly_values_netted array the provider sends
MaxReadings == 2
\* failed attempts one request to the consumption provider meets in a session
\* that examines the reconciliation or two concurrent calls
MaxFaults == 1
\* sessions in which a request may fail any number of times
Unlimited == -1

\* ------------------------------------------------------- program constants
maxRetries == 5

\* --------------------------------------------------------------- universes
Years == {2023, 2024}
\* The invocations of combineData a behaviour follows: fetchData run by the
\* effect of usePriceData, and fetchData run by refresh() from the layout
\* effect of HomeScreen.  Nothing makes the second wait for the first.
Callers == {"c1", "c2"}
Definitions == {1, 2}

\* A Date value as the code observes it through getFullYear / getMonth /
\* getDate.  tag "missing" is an absent (falsy) lastUpdated, tag "invalid" a
\* string that new Date() turns into an Invalid Date (every getter is NaN).
Dates == [tag : {"date"}, year : Years, month : 1..MaxMonth, date : 1..MaxDay]
MissingDate == [tag |-> "missing", year |-> 0, month |-> 0, date |-> 0]
InvalidDate == [tag |-> "invalid", year |-> 0, month |-> 0, date |-> 0]
LastUpdatedValues == Dates \cup {MissingDate, InvalidDate}

DateLT(a, b) ==
    \/ a.year < b.year
    \/ a.year = b.year /\ a.month < b.month
    \/ a.year = b.year /\ a.month = b.month /\ a.date < b.date

\* The hourly / monthly field of a blob: an array with some content, or a
\* value that is not an array.
ArrayOf(content) == [isArray |-> TRUE, content |-> content]
NotArray == [isArray |-> FALSE, content |-> <<>>]

\* What JSON.parse yields for a blob (YearData when well formed).
YearData(lu, h, m) == [isNull |-> FALSE, lastUpdated |-> lu, hourly |-> h, monthly |-> m]
Null == [isNull |-> TRUE, lastUpdated |-> MissingDate, hourly |-> NotArray, monthly |-> NotArray]

\* ------------------------------------------------- readings and price data
\* Numbers are fixed point.  reading.v is counted in tenths of a watt-hour,
\* consumption_kWh in thousandths of a kWh, prices in hundredths of a cent,
\* cost_euros in millionths of a euro.  toFixed rounds the exact decimal value
\* half away from zero; the representation error of binary floating point is
\* outside the model.
RoundDiv(a, b) ==
    IF a >= 0 THEN (2 * a + b) \div (2 * b) ELSE -((2 * (-a) + b) \div (2 * b))

\* A timestamp string: one that new Date() parses, the empty string, or text
\* that new Date() turns into an Invalid Date.  A string that parses names a
\* wall-clock hour and the UTC offset (in hours) it is written with.  Forms:
\* "api" as a provider sends it, "helsinki" yyyy-MM-dd'T'HH:mm:ssXXX, "isoMs"
\* toISOString, "isoZ" toISOString with .000Z replaced by Z.
Stamp(form, wall, offset) == [kind |-> "time", form |-> form, wall |-> wall, offset |-> offset]
EmptyStamp == [kind |-> "empty", form |-> "none", wall |-> 0, offset |-> 0]
GarbageStamp == [kind |-> "garbage", form |-> "none", wall |-> 0, offset |-> 0]

\* new Date(t).getTime() of a string that parses: the instant, an hour number
\* on the UTC axis.
getTime(t) == t.wall - t.offset

\* Date.prototype.toISOString: the instant written in UTC.
toISOString(instant) == Stamp("isoMs", instant, 0)

\* The hours of the year the data speak of.  Hour 2 is the last hour of
\* January in UTC and already February on the device's local clock.  Summer
\* time begins in Europe/Helsinki at hour 2: the offset is +02:00 before it and
\* +03:00 from it on.
Instants == {1, 2, 3}
DstStart == 2
HelsinkiOffset(instant) == IF instant < DstStart THEN 2 ELSE 3
UtcMonth(h) == IF h <= 2 THEN 1 ELSE 2
LocalMonth(h) == IF h <= 1 THEN 1 ELSE 2

\* reading.v as JSON delivers it: a number, or undefined / null.
Num(n) == [type |-> "number", n |-> n]
Undefined == [type |-> "undefined", n |-> 0]
NullValue == [type |-> "null", n |-> 0]

Reading(t, v) == [t |-> t, v |-> v]

\* hourly_values_netted / hourly_values of a month group: undefined or an array.
Variant(items) == [present |-> TRUE, items |-> items]
AbsentVariant == [present |-> FALSE, items |-> <<>>]
MonthGroup(m, netted, gross) ==
    [month |-> m, hourly_values_netted |-> netted, hourly_values |-> gross]

\* What fetchConsumptionData returned: nothing yet, or the results array.
NoResponses == [returned |-> FALSE, list |-> <<>>]
Responses(list) == [returned |-> TRUE, list |-> list]

\* A raw price row of the price provider; value in hundredths of a cent.
PriceRow(t, value) == [timeStamp |-> t, value |-> value]

\* The hourly and monthly arrays of the blobs an earlier session stored.
StoredHourly ==
    <<[timestamp |-> toISOString(1), consumption_kWh |-> 1000,
       price_cents_per_kWh |-> 1000, cost_euros |-> 100000]>>
StoredMonthly ==
    <<[month |-> [style |-> "YYYY-MM", month |-> 1], totalConsumption |-> 1000,
       averagePrice |-> [kind |-> "number", n |-> 1000], totalCost |-> 100000]>>

\* Response bodies.  token: the Cognito answer.  customer_data_and_token: ok
\* says whether a metering point of type 'kulutus' is listed.
\* meter_reading_yh: the months array; ok is FALSE for a body with a month
\* whose hourly_values is not an array.
Body(kind, ok, months) == [kind |-> kind, ok |-> ok, months |-> months]
TokenBody == Body("token", TRUE, <<>>)
CustomerBodies == {Body("customer", TRUE, <<>>), Body("customer", FALSE, <<>>)}
ReadingsBody(months) == Body("readings", TRUE, months)
MalformedReadingsBody == Body("readings", FALSE, <<>>)

\* What the price request can end in: a rejection, or the raw price rows.
PriceRejected(e) == [kind |-> "rejected", error |-> e, data |-> <<>>]
PriceData(rows) == [kind |-> "data", error |-> "none", data |-> rows]

\* What the spot price request of getCurrentSpotPrice can end in; the rows
\* are those of today.  CurrentHour is the hour of the wall clock.
CurrentHour == 1
SpotOutcomes ==
    {PriceRejected("NetworkError"), PriceData(<<>>),
     PriceData(<<PriceRow(Stamp("api", 2, 0), 1000)>>),
     PriceData(<<PriceRow(Stamp("api", 2, 0), 1000), PriceRow(Stamp("api", 1, 0), 500)>>)}

\* A price held by the state of usePriceData: null or a number.
NoPrice == [kind |-> "null", n |-> 0]
Price(n) == [kind |-> "number", n |-> n]

\* settings.spotMargin, in hundredths of a cent: 1 c/kWh, the default of
\* useSettings.
Margins == {100}

\* The JavaScript engines the app is built for differ in how Date parses a
\* string like 'January 2024' (the format is left to the implementation):
\* "lenient" yields the first day of the month, "strict" an Invalid Date.
Engines == {"lenient", "strict"}

\* The data the two providers answer with in an ordinary session.
UsualMonths ==
    <<MonthGroup(1, Variant(<<Reading(Stamp("api", 1, 0), Num(15000))>>),
                    Variant(<<Reading(Stamp("api", 1, 0), Num(20000))>>))>>
UsualReadings == {ReadingsBody(UsualMonths), MalformedReadingsBody}
UsualPrices == {<<PriceRow(Stamp("api", 1, 0), 500)>>, <<PriceRow(GarbageStamp, 500)>>}

\* The data the reconciliation is examined on.  Netted readings: 1500 Wh in
\* hour 1 written with the offset +02:00, 1500.4 Wh in hour 2 written with
\* +03:00, readings with an unparseable or empty timestamp or a value that is
\* not a number.  Gross readings are written in UTC and carry other values
\* than netted ones, in one array a single hour without consumption.  Hour 2
\* has a price in some price lists only.
NettedReadings ==
    {Reading(Stamp("api", 3, 2), Num(15000)), Reading(Stamp("api", 5, 3), Num(15004)),
     Reading(GarbageStamp, Num(15000)), Reading(EmptyStamp, Num(15000)),
     Reading(Stamp("api", 1, 0), Undefined), Reading(Stamp("api", 1, 0), NullValue)}
GrossArrays ==
    {<<>>, <<Reading(Stamp("api", 1, 0), Num(20000)), Reading(Stamp("api", 2, 0), Num(25000))>>,
     <<Reading(Stamp("api", 2, 0), Num(0))>>}

RECURSIVE SeqsUpTo(_, _)
SeqsUpTo(S, n) ==
    IF n = 0 THEN {<<>>}
    ELSE SeqsUpTo(S, n - 1) \cup
         {Append(q, x) : q \in {r \in SeqsUpTo(S, n - 1) : Len(r) = n - 1}, x \in S}

NettedVariants == {AbsentVariant} \cup {Variant(q) : q \in SeqsUpTo(NettedReadings, MaxReadings)}
GrossVariants == {AbsentVariant} \cup {Variant(q) : q \in GrossArrays}

\* Bodies without a month group, of one month group, and some of two groups,
\* one of them with the later month first.
ExaminedMonths ==
    {<<>>} \cup {<<MonthGroup(1, n, g)>> : n \in NettedVariants, g \in GrossVariants}
      \cup {<<MonthGroup(1, Variant(<<Reading(Stamp("api", 5, 3), Num(15004))>>), AbsentVariant),
              MonthGroup(2, AbsentVariant, Variant(g))>> : g \in GrossArrays}
      \cup {<<MonthGroup(2, Variant(<<Reading(Stamp("api", 6, 3), Num(15000))>>), AbsentVariant),
              MonthGroup(1, Variant(<<Reading(Stamp("api", 3, 2), Num(15000))>>), AbsentVariant)>>}
ExaminedReadings == {ReadingsBody(m) : m \in ExaminedMonths} \cup {MalformedReadingsBody}
ExaminedPrices ==
    {<<PriceRow(Stamp("api", 1, 0), 500)>>,
     <<PriceRow(Stamp("api", 2, 0), 1000), PriceRow(Stamp("api", 1, 0), 500),
       PriceRow(Stamp("api", 1, 0), 700), PriceRow(Stamp("api", 3, 0), 800)>>,
     <<PriceRow(Stamp("api", 1, 0), 500), PriceRow(GarbageStamp, 500)>>}

\* The bodies the meter_reading_yh endpoint and the price endpoint may answer
\* with, by the data the providers hold.
ReadingsOf(p) == IF p = "examined" THEN ExaminedReadings ELSE UsualReadings
PricesHeld(p) == IF p = "examined" THEN ExaminedPrices ELSE UsualPrices

\* A cache file: absent, text that JSON.parse rejects, or a JSON object.
AbsentBlob == [kind |-> "absent", data |-> Null]
GarbageBlob == [kind |-> "garbage", data |-> Null]
JsonBlob(d) == [kind |-> "json", data |-> d]

\* Blobs that may lie in the cache directory when the app starts: written by
\* an earlier session (valid, any lastUpdated) or damaged in one of the ways
\* getCachedData tests for.
InitialBlobs ==
    {AbsentBlob, GarbageBlob}
      \cup {JsonBlob(YearData(lu, ArrayOf(StoredHourly), ArrayOf(StoredMonthly))) : lu \in LastUpdatedValues}
      \cup {JsonBlob(YearData(lu, NotArray, ArrayOf(StoredMonthly))) : lu \in {CHOOSE x \in Dates : TRUE}}
      \cup {JsonBlob(YearData(lu, ArrayOf(StoredHourly), NotArray)) : lu \in {CHOOSE x \in Dates : TRUE}}

\* Errors.  at is the attempt index of makeRequestWithRetry whose failure the
\* error object is (0 for errors not raised by an HTTP attempt).
Err(name, at) == [name |-> name, at |-> at]
NoError == Err("none", 0)

NoResult == [kind |-> "none", data |-> Null, error |-> NoError]
Returned(d) == [kind |-> "data", data |-> d, error |-> NoError]
Thrown(e) == [kind |-> "error", data |-> Null, error |-> e]

VARIABLES
    defn,        \* which of the two DataProcessor definitions is bound
    provider,    \* the data the providers hold: "usual" or "examined"
    faults,      \* failed attempts a request to the consumption provider may meet
    engine,      \* how the JavaScript engine parses 'January 2024': "lenient" or "strict"
    now,         \* the wall clock (local calendar day)
    settings,    \* AsyncStorage 'app_settings': "absent", "noUsername", "ok"
    password,    \* secure storage holds a password
    dirExists,   \* the cache directory exists
    cache,       \* year -> blob in the cache directory
    pc,          \* caller -> position in combineData
    year,        \* caller -> requested year
    cachedData,  \* caller -> value getCachedData returned
    req,         \* caller -> request in progress: token, customer, readings
    attempt,     \* caller -> attempt parameter of makeRequestWithRetry
    sent,        \* caller -> HTTP attempts made by the current request
    waited,      \* caller -> backoff waits (seconds) of the current request
    cause,       \* caller -> failed outcome of the latest attempt, "none" once retried
    handed,      \* caller -> status of the last response makeRequestWithRetry returned
    received,    \* caller -> the months of the meter_reading_yh body as it arrived
    responses,   \* caller -> what fetchConsumptionData returned
    http,        \* caller -> providers that were sent a request during the call
    priceFetch,  \* caller -> fetchPriceData: requests sent, how it ended, rows received (raw) and returned
    joined,      \* caller -> combineData went on to build the price map
    spawned,     \* caller -> the call started saveToCache
    writes,      \* caller -> blob writes done by the saveToCache of the call
    saves,       \* saveToCache invocations still running
    caught,      \* caller -> error that reached the catch block of combineData
    result,      \* caller -> outcome of combineData
    currentSpotPrice,  \* caller -> price getCurrentSpotPrice returned to fetchData
    delivered,   \* caller -> fetchData has made its final setData
    shown,       \* the state of usePriceData (its data)
    selectedYear,  \* settings.year as the latest fetchData closure holds it (0: none yet)
    shownYear,   \* the year of the YearData that hourlyData and monthlyData of shown came from (0: none)
    startedAt,   \* caller -> position of handleReset when its fetchData was invoked
    resetPc,     \* position of the Reset handler of SettingsScreen
    hookUsername,  \* the settings state of useSettings holds an eleniaUsername
    onboarded    \* isOnboarded of the stored 'app_settings'

vars == <<defn, provider, faults, engine, resetPc, hookUsername, onboarded, startedAt, selectedYear, shownYear, currentSpotPrice, delivered, shown, now, settings, password, dirExists, cache, pc, year,
          cachedData, req, attempt, sent, waited, cause, handed, received,
          responses, http, priceFetch, joined, spawned, writes, saves, caught, result>>

\* ------------------------------------------------ DataProcessor, pure parts

\* Mutation of shouldUpdateData: the month comparison is dropped.
shouldUpdateData_NoMonth(lastUpdated, n) ==
    IF lastUpdated.tag = "missing" THEN TRUE
    ELSE LET isCurrentYear == lastUpdated.tag = "date" /\ lastUpdated.year = n.year
         IN  IF isCurrentYear
             THEN \/ lastUpdated.date # n.date
                  \/ lastUpdated.year # n.year
             ELSE FALSE

\* shouldUpdateData of the first class definition.
shouldUpdateData(lastUpdated, n) ==
    IF lastUpdated.tag = "missing" THEN TRUE
    ELSE LET isCurrentYear == lastUpdated.tag = "date" /\ lastUpdated.year = n.year
         IN  IF isCurrentYear
             THEN \/ lastUpdated.date # n.date
                  \/ lastUpdated.month # n.month
                  \/ lastUpdated.year # n.year
             ELSE FALSE

\* shouldUpdateData of the second class definition.
shouldUpdateData_2(lastUpdated, n) ==
    IF lastUpdated.tag = "missing" THEN TRUE
    ELSE LET isCurrentYear == lastUpdated.tag = "date" /\ lastUpdated.year = n.year
         IN  IF isCurrentYear
             THEN \/ lastUpdated.date # n.date
                  \/ lastUpdated.month # n.month
             ELSE FALSE

\* "Basic validation" of getCachedData (first definition): the parsed value
\* is kept only when it has lastUpdated and both arrays.
PassesValidation(d) ==
    ~(d.isNull \/ d.lastUpdated.tag = "missing" \/ ~d.hourly.isArray \/ ~d.monthly.isArray)

\* Math.pow(2, n)
RECURSIVE Pow2(_)
Pow2(n) == IF n = 0 THEN 1 ELSE 2 * Pow2(n - 1)

\* Mutation of waitTime: the exponent is the number of the next attempt.
waitTime_NextAttempt(a) == Pow2(a + 1)

\* waitTime of makeRequestWithRetry, in seconds
waitTime(a) == Pow2(a)

\* Mutation of MayRetry: off by one, a retry follows the fifth attempt.
MayRetry_OffByOne(a) == a < maxRetries

\* the retry guard of makeRequestWithRetry (both branches use it)
MayRetry(a) == a < maxRetries - 1

\* ------------------------------------------------ EleniaService, pure parts

\* Mutation of convertTimestamp: the Helsinki wall clock is written with the
\* winter offset all year.
convertTimestamp_WinterOffset(t) ==
    IF t.kind = "time"
    THEN Stamp("helsinki", getTime(t) + HelsinkiOffset(getTime(t)), 2)
    ELSE t

\* convertTimestamp of getMeterReadings: the instant rewritten as the
\* Helsinki wall clock with the Helsinki offset of that instant; what cannot
\* be parsed is returned as it came.
convertTimestamp(t) ==
    IF t.kind = "time"
    THEN Stamp("helsinki", getTime(t) + HelsinkiOffset(getTime(t)), HelsinkiOffset(getTime(t)))
    ELSE t

ConvertReadings(items) ==
    [i \in 1..Len(items) |-> [items[i] EXCEPT !.t = convertTimestamp(items[i].t)]]

\* Mutation of NormalizeMonth: the variant that is not used is left in place.
NormalizeMonth_KeepsBoth(month) ==
    IF month.hourly_values_netted.present /\ Len(month.hourly_values_netted.items) > 0
    THEN [month EXCEPT !.hourly_values_netted = Variant(ConvertReadings(@.items))]
    ELSE IF month.hourly_values.present /\ Len(month.hourly_values.items) > 0
    THEN [month EXCEPT !.hourly_values = Variant(ConvertReadings(@.items))]
    ELSE month

\* The months.map of getMeterReadings: netted values, when there are any,
\* are converted and the gross values cleared; otherwise the other way round.
NormalizeMonth(month) ==
    IF month.hourly_values_netted.present /\ Len(month.hourly_values_netted.items) > 0
    THEN [month EXCEPT !.hourly_values_netted = Variant(ConvertReadings(@.items)),
                       !.hourly_values = AbsentVariant]
    ELSE IF month.hourly_values.present /\ Len(month.hourly_values.items) > 0
    THEN [month EXCEPT !.hourly_values = Variant(ConvertReadings(@.items)),
                       !.hourly_values_netted = AbsentVariant]
    ELSE month

\* ------------------------------------------- VattenfallService, pure parts

\* value * (1 + VAT_RATE) with VAT_RATE = 0.255, to two decimals
WithVat(value) == RoundDiv(value * 1255, 1000)

\* fetchPriceData maps every row; toISOString throws a RangeError on a row
\* whose timestamp is not a date, and the whole fetch fails.
ProcessedPrices(data) ==
    IF \E i \in 1..Len(data) : data[i].timeStamp.kind # "time"
    THEN [ok |-> FALSE, rows |-> <<>>]
    ELSE [ok |-> TRUE,
          rows |-> [i \in 1..Len(data) |->
                      PriceRow(Stamp("isoZ", getTime(data[i].timeStamp), 0),
                               WithVat(data[i].value))]]

\* ------------------------------------------ the join of combineData, pure

\* Mutation of JoinKey: the first definition looks the reading up under the
\* short form, as the second does, while its price map is keyed by toISOString.
JoinKey_ShortForm(d, instant) == Stamp("isoZ", instant, 0)

\* The key of the price map and of the lookup: toISOString in the first
\* definition, toISOString with .000Z replaced by Z in the second.
JoinKey(d, instant) == Stamp(IF d = 1 THEN "isoMs" ELSE "isoZ", instant, 0)

\* new Map(pricesArray.map(...)): the entries in insertion order.  The rows
\* come from fetchPriceData, so every timestamp parses.
PriceMap(d, pricesArray) ==
    [i \in 1..Len(pricesArray) |->
        [key |-> Stamp(IF d = 1 THEN "isoMs" ELSE "isoZ", getTime(pricesArray[i].timeStamp), 0),
         value |-> pricesArray[i].value]]

\* prices.get(key): the value of the last entry set under the key.
HasPrice(prices, key) == \E i \in 1..Len(prices) : prices[i].key = key
GetPrice(prices, key) ==
    LET last == CHOOSE i \in 1..Len(prices) :
                    /\ prices[i].key = key
                    /\ \A j \in (i + 1)..Len(prices) : prices[j].key # key
    IN  prices[last].value

\* The readings combineData takes from a month group: the first definition
\* prefers the netted values, the second the gross values.
SelectReadings(d, month) ==
    IF d = 1
    THEN IF month.hourly_values_netted.present /\ Len(month.hourly_values_netted.items) > 0
         THEN month.hourly_values_netted ELSE month.hourly_values
    ELSE IF ~month.hourly_values.present \/ Len(month.hourly_values.items) = 0
         THEN month.hourly_values_netted ELSE month.hourly_values

\* monthKey of a record: the UTC year-month in the first definition, the long
\* month name on the local clock in the second.
MonthKey(d, instant) ==
    IF d = 1 THEN [style |-> "YYYY-MM", month |-> UtcMonth(instant)]
    ELSE [style |-> "long", month |-> LocalMonth(instant)]

\* monthlyDataMap after monthData of the entry's month took the entry in.
Accumulate(months, key, entry) ==
    IF \E i \in 1..Len(months) : months[i].month = key
    THEN [i \in 1..Len(months) |->
            IF months[i].month = key
            THEN [months[i] EXCEPT !.totalConsumption = @ + entry.consumption_kWh,
                                   !.totalCost = @ + entry.cost_euros]
            ELSE months[i]]
    ELSE Append(months, [month |-> key,
                         totalConsumption |-> entry.consumption_kWh,
                         totalCost |-> entry.cost_euros])

\* The CombinedData entry of a reading with value v (tenths of a Wh) at price
\* (hundredths of a cent): the cost is computed from the unrounded consumption.
Entry(key, v, price) ==
    [timestamp |-> key,
     consumption_kWh |-> RoundDiv(v, 10),
     price_cents_per_kWh |-> RoundDiv(price, 1),
     cost_euros |-> RoundDiv(v * price, 100)]

JoinState(hourly, months, error) == [hourly |-> hourly, months |-> months, error |-> error]

\* One pass of the reading loop.  The first definition skips what it cannot
\* use; the second calls toISOString on whatever new Date(reading.t) gave,
\* divides whatever reading.v is by 1000 and skips only NaN.
JoinReading(d, reading, prices, acc) ==
    IF d = 1 THEN
        IF reading.v.type # "number" \/ reading.t.kind # "time" THEN acc
        ELSE LET key == JoinKey(d, getTime(reading.t))
             IN  IF ~HasPrice(prices, key) THEN acc
                 ELSE LET entry == Entry(key, reading.v.n, GetPrice(prices, key))
                      IN  JoinState(Append(acc.hourly, entry),
                                    Accumulate(acc.months, MonthKey(d, getTime(key)), entry),
                                    acc.error)
    ELSE
        IF reading.t.kind # "time" THEN JoinState(acc.hourly, acc.months, Err("RangeError", 0))
        ELSE LET key == JoinKey(d, getTime(reading.t))
             IN  IF ~HasPrice(prices, key) \/ reading.v.type = "undefined" THEN acc
                 ELSE LET entry == Entry(key, reading.v.n, GetPrice(prices, key))
                      IN  JoinState(Append(acc.hourly, entry),
                                    Accumulate(acc.months, MonthKey(d, getTime(key)), entry),
                                    acc.error)

RECURSIVE JoinReadings(_, _, _, _)
JoinReadings(d, readings, prices, acc) ==
    IF readings = <<>> \/ acc.error # NoError THEN acc
    ELSE JoinReadings(d, Tail(readings), prices, JoinReading(d, Head(readings), prices, acc))

\* Mutation of JoinMonths: a month group without usable readings is not
\* passed over but opens its monthData entry with zero totals.
RECURSIVE JoinMonths_OpensEmptyMonth(_, _, _, _)
JoinMonths_OpensEmptyMonth(d, months, prices, acc) ==
    IF months = <<>> \/ acc.error # NoError THEN acc
    ELSE LET readings == SelectReadings(d, Head(months))
         IN  JoinMonths_OpensEmptyMonth(d, Tail(months), prices,
                 IF ~readings.present \/ readings.items = <<>>
                 THEN JoinState(acc.hourly,
                                Accumulate(acc.months,
                                           [style |-> "YYYY-MM", month |-> Head(months).month],
                                           [consumption_kWh |-> 0, cost_euros |-> 0]),
                                acc.error)
                 ELSE JoinReadings(d, readings.items, prices, acc))

RECURSIVE JoinMonths(_, _, _, _)
JoinMonths(d, months, prices, acc) ==
    IF months = <<>> \/ acc.error # NoError THEN acc
    ELSE LET readings == SelectReadings(d, Head(months))
         IN  JoinMonths(d, Tail(months), prices,
                 IF ~readings.present THEN acc
                 ELSE JoinReadings(d, readings.items, prices, acc))

RECURSIVE JoinResponses(_, _, _, _)
JoinResponses(d, list, prices, acc) ==
    IF list = <<>> \/ acc.error # NoError THEN acc
    ELSE JoinResponses(d, Tail(list), prices, JoinMonths(d, Head(list), prices, acc))

\* Array.prototype.sort on the hourly entries, by the time of the timestamp;
\* the sort is stable.
RECURSIVE InsertHourly(_, _)
InsertHourly(sorted, e) ==
    IF sorted = <<>> THEN <<e>>
    ELSE IF getTime(e.timestamp) < getTime(Head(sorted).timestamp) THEN <<e>> \o sorted
    ELSE <<Head(sorted)>> \o InsertHourly(Tail(sorted), e)

RECURSIVE SortHourly(_)
SortHourly(entries) ==
    IF entries = <<>> THEN <<>>
    ELSE InsertHourly(SortHourly(SubSeq(entries, 1, Len(entries) - 1)), entries[Len(entries)])

\* Array.prototype.sort on the monthly summaries, by month.
RECURSIVE InsertMonthly(_, _)
InsertMonthly(sorted, m) ==
    IF sorted = <<>> THEN <<m>>
    ELSE IF m.month.month < Head(sorted).month.month THEN <<m>> \o sorted
    ELSE <<Head(sorted)>> \o InsertMonthly(Tail(sorted), m)

RECURSIVE SortMonthly(_)
SortMonthly(months) ==
    IF months = <<>> THEN <<>>
    ELSE InsertMonthly(SortMonthly(SubSeq(months, 1, Len(months) - 1)), months[Len(months)])

\* totalCost / totalConsumption * 100 to two decimals (hundredths of a cent)
Ratio(cost, consumption) ==
    IF consumption > 0 THEN RoundDiv(cost * 10, consumption)
    ELSE RoundDiv(-(cost * 10), -consumption)

\* The map over monthlyDataMap.values(): totals rounded, average computed.
\* The first definition guards the division, the second divides by zero
\* (NaN for 0/0, Infinity otherwise); it also rounds the consumption to two
\* decimals where the first keeps three.
MonthlySummary(d, data) ==
    [month |-> data.month,
     totalConsumption |-> IF d = 1 THEN RoundDiv(data.totalConsumption, 1)
                          ELSE RoundDiv(data.totalConsumption, 10) * 10,
     averagePrice |->
        IF data.totalConsumption # 0
        THEN [kind |-> "number", n |-> Ratio(data.totalCost, data.totalConsumption)]
        ELSE IF d = 1 THEN [kind |-> "number", n |-> 0]
        ELSE IF data.totalCost = 0 THEN [kind |-> "NaN", n |-> 0]
        ELSE [kind |-> "Infinity", n |-> 0],
     totalCost |-> RoundDiv(data.totalCost, 10000) * 10000]

\* The .sort of monthlyData.  The first definition compares the "YYYY-MM"
\* keys.  The second compares new Date(month).getTime() of keys like
\* 'January 2024': where the engine does not parse them every comparison is
\* NaN, which sort takes for equal, and the stable sort keeps the order in
\* which the months entered monthlyDataMap.
SortedMonthly(d, months) ==
    IF d = 2 /\ engine = "strict" THEN months ELSE SortMonthly(months)

\* Mutation of Reconcile: combinedData is not a local of the call but outlives
\* it, so a run starts from the records of a run that completed before.
Reconcile_KeepsLedger(d, list, pricesArray) ==
    LET Completed(c) == pc[c] = "done" /\ joined[c] /\ caught[c] = NoError
        kept == IF \E c \in Callers : Completed(c)
                THEN result[CHOOSE c \in Callers : Completed(c)].data.hourly.content
                ELSE <<>>
        acc == JoinResponses(d, list, PriceMap(d, pricesArray),
                             JoinState(kept, <<>>, NoError))
    IN  [error |-> acc.error,
         hourly |-> SortHourly(acc.hourly),
         monthly |-> SortedMonthly(d, [i \in 1..Len(acc.months) |-> MonthlySummary(d, acc.months[i])])]

\* combineData from the price map to yearData.hourly / yearData.monthly, or
\* the error the join threw.
Reconcile(d, list, pricesArray) ==
    LET acc == JoinResponses(d, list, PriceMap(d, pricesArray),
                             JoinState(<<>>, <<>>, NoError))
    IN  [error |-> acc.error,
         hourly |-> SortHourly(acc.hourly),
         monthly |-> SortedMonthly(d, [i \in 1..Len(acc.months) |-> MonthlySummary(d, acc.months[i])])]

\* ------------------------------------------------ SpotPriceService, pure

\* priceWithVAT of getCurrentSpotPrice: value * (1 + VAT_RATE) with
\* VAT_RATE = 0.24, to two decimals.
CurrentWithVat(value) == RoundDiv(value * 124, 100)

\* getCurrentSpotPrice from the answer of axios.get on: the price of the row
\* of the current hour, or the error it throws.
SpotPriceOf(o) ==
    IF o.kind = "rejected" THEN [ok |-> FALSE, price |-> NoPrice, error |-> Err(o.error, 0)]
    ELSE IF o.data = <<>>
    THEN [ok |-> FALSE, price |-> NoPrice, error |-> Err("No price data available", 0)]
    ELSE IF ~\E i \in 1..Len(o.data) : getTime(o.data[i].timeStamp) = CurrentHour
    THEN [ok |-> FALSE, price |-> NoPrice, error |-> Err("Current hour price not found", 0)]
    ELSE LET first == CHOOSE i \in 1..Len(o.data) :
                          /\ getTime(o.data[i].timeStamp) = CurrentHour
                          /\ \A j \in 1..(i - 1) : getTime(o.data[j].timeStamp) # CurrentHour
         IN  [ok |-> TRUE, price |-> Price(CurrentWithVat(o.data[first].value)), error |-> NoError]

\* ---------------------------------------------------- usePriceData, pure

\* hourlyData of applySpotMargin: the margin is added to the price and the
\* cost recomputed from the stored consumption.
WithMargin(hour, spotMargin) ==
    [hour EXCEPT !.price_cents_per_kWh = RoundDiv(hour.price_cents_per_kWh + spotMargin, 1),
                 !.cost_euros = RoundDiv(hour.consumption_kWh * (hour.price_cents_per_kWh + spotMargin), 10)]

\* monthlyDataMap of applySpotMargin after the hours were taken in, in order:
\* the key is the long month name on the local clock.
RECURSIVE MarginMonths(_, _)
MarginMonths(hours, months) ==
    IF hours = <<>> THEN months
    ELSE MarginMonths(Tail(hours),
             Accumulate(months,
                        [style |-> "long", month |-> LocalMonth(getTime(Head(hours).timestamp))],
                        Head(hours)))

\* The map over monthlyDataMap.values() of applySpotMargin: the totals to two
\* decimals, the average by an unguarded division; the months are not sorted.
MarginSummary(month) ==
    [month |-> month.month,
     totalConsumption |-> RoundDiv(month.totalConsumption, 10) * 10,
     averagePrice |->
        IF month.totalConsumption # 0
        THEN [kind |-> "number", n |-> Ratio(month.totalCost, month.totalConsumption)]
        ELSE IF month.totalCost = 0 THEN [kind |-> "NaN", n |-> 0]
        ELSE [kind |-> "Infinity", n |-> 0],
     totalCost |-> RoundDiv(month.totalCost, 10000) * 10000]

applySpotMargin(rawData, spotMargin) ==
    LET hourlyData == [i \in 1..Len(rawData.hourlyData) |-> WithMargin(rawData.hourlyData[i], spotMargin)]
        months == MarginMonths(hourlyData, <<>>)
    IN  [rawData EXCEPT
            !.hourlyData = hourlyData,
            !.monthlyData = [i \in 1..Len(months) |-> MarginSummary(months[i])],
            !.currentPriceWithMargin =
                IF rawData.currentPrice.kind = "number" /\ rawData.currentPrice.n # 0
                THEN Price(RoundDiv(rawData.currentPrice.n + spotMargin, 1))
                ELSE NoPrice]

\* useState of usePriceData
InitialData ==
    [currentPrice |-> NoPrice, currentPriceWithMargin |-> NoPrice,
     hourlyData |-> <<>>, monthlyData |-> <<>>, isLoading |-> TRUE, error |-> NoError]

\* --------------------------------------------------------------- initially
\* No call of combineData has been made.
NoCall ==
    /\ year = [c \in Callers |-> CHOOSE y \in Years : TRUE]
    /\ cachedData = [c \in Callers |-> Null]
    /\ req = [c \in Callers |-> "none"]
    /\ attempt = [c \in Callers |-> 0]
    /\ sent = [c \in Callers |-> 0]
    /\ waited = [c \in Callers |-> <<>>]
    /\ cause = [c \in Callers |-> "none"]
    /\ handed = [c \in Callers |-> 0]
    /\ received = [c \in Callers |-> <<>>]
    /\ responses = [c \in Callers |-> NoResponses]
    /\ http = [c \in Callers |-> {}]
    /\ priceFetch = [c \in Callers |-> [sent |-> 0, outcome |-> "none", raw |-> <<>>, rows |-> <<>>]]
    /\ joined = [c \in Callers |-> FALSE]
    /\ spawned = [c \in Callers |-> FALSE]
    /\ writes = [c \in Callers |-> 0]
    /\ saves = {}
    /\ caught = [c \in Callers |-> NoError]
    /\ result = [c \in Callers |-> NoResult]
    /\ currentSpotPrice = [c \in Callers |-> NoPrice]
    /\ delivered = [c \in Callers |-> FALSE]
    /\ shown = InitialData
    /\ selectedYear = 0
    /\ shownYear = 0
    /\ startedAt = [c \in Callers |-> "idle"]
    /\ resetPc = "idle"
    /\ hookUsername = (settings = "ok")
    /\ onboarded = (settings = "ok")

\* One call of combineData, made on any day in any state of the settings,
\* the secure storage and the cache directory.
Init ==
    /\ defn \in Definitions
    /\ provider = "usual"
    /\ faults = Unlimited
    /\ engine = "lenient"
    /\ now \in Dates
    /\ settings \in {"absent", "noUsername", "ok"}
    /\ password \in BOOLEAN
    /\ dirExists \in BOOLEAN
    /\ \E y \in Years, b \in InitialBlobs :
          cache = [z \in Years |-> IF z = y /\ dirExists THEN b ELSE AbsentBlob]
    /\ pc = [c \in Callers |-> IF c = "c1" THEN "idle" ELSE "notCalled"]
    /\ NoCall

\* A session of an onboarded user, late in the year, whose cache directory is
\* missing or holds one unreadable file.
OnboardedSession ==
    /\ defn \in Definitions
    /\ now = [tag |-> "date", year |-> 2024, month |-> MaxMonth, date |-> MaxDay - 1]
    /\ settings = "ok"
    /\ password = TRUE
    /\ faults = MaxFaults
    /\ dirExists \in BOOLEAN
    /\ cache = [z \in Years |-> IF z = 2024 /\ dirExists THEN GarbageBlob ELSE AbsentBlob]
    /\ NoCall

\* One call of combineData on the examined provider data.
InitJoin ==
    /\ OnboardedSession
    /\ provider = "examined"
    /\ engine \in IF defn = 2 THEN Engines ELSE {"lenient"}
    /\ pc = [c \in Callers |-> IF c = "c1" THEN "idle" ELSE "notCalled"]

\* Both invocations of combineData are made.
InitConcurrent ==
    /\ OnboardedSession
    /\ provider = "usual"
    /\ engine = "lenient"
    /\ pc = [c \in Callers |-> "idle"]

\* An onboarded user makes one refresh and presses Reset on the settings
\* screen, in either order and possibly overlapping.
InitReset ==
    /\ OnboardedSession
    /\ provider = "usual"
    /\ engine = "lenient"
    /\ pc = [c \in Callers |-> IF c = "c1" THEN "idle" ELSE "notCalled"]

\* One call of combineData by an onboarded user whose requests to the
\* consumption provider may fail any number of times.
InitLive ==
    /\ defn \in Definitions
    /\ provider = "usual"
    /\ faults = Unlimited
    /\ engine = "lenient"
    /\ now = [tag |-> "date", year |-> 2024, month |-> MaxMonth, date |-> MaxDay - 1]
    /\ settings = "ok"
    /\ password = TRUE
    /\ dirExists \in BOOLEAN
    /\ cache = [z \in Years |-> IF z = 2024 /\ dirExists THEN GarbageBlob ELSE AbsentBlob]
    /\ pc = [c \in Callers |-> IF c = "c1" THEN "idle" ELSE "notCalled"]
    /\ NoCall

\* ------------------------------------------------------------- combineData

\* Mutation of Catch: without a cached dataset an empty dataset is returned
\* instead of rethrowing (the alternative the source leaves commented out).
Catch_EmptyState(c, e) ==
    /\ pc' = [pc EXCEPT ![c] = "done"]
    /\ caught' = [caught EXCEPT ![c] = e]
    /\ result' = [result EXCEPT ![c] =
                    IF defn = 1 /\ ~cachedData[c].isNull
                    THEN Returned(cachedData[c])
                    ELSE Returned(YearData(now, ArrayOf(<<>>), ArrayOf(<<>>)))]

\* The catch block of combineData: the first definition falls back to the
\* cached dataset when it has one, the second always rethrows.
Catch(c, e) ==
    /\ pc' = [pc EXCEPT ![c] = "done"]
    /\ caught' = [caught EXCEPT ![c] = e]
    /\ result' = [result EXCEPT ![c] =
                    IF defn = 1 /\ ~cachedData[c].isNull
                    THEN Returned(cachedData[c]) ELSE Thrown(e)]

\* The staleness test of combineData on the value getCachedData returned.
NeedsUpdate(d) ==
    IF defn = 1 THEN shouldUpdateData(d.lastUpdated, now)
    ELSE shouldUpdateData_2(d.lastUpdated, now)

\* Mutation of AfterGetCachedData: the negation of the staleness test is lost.
AfterGetCachedData_LostNegation(c, d) ==
    /\ cachedData' = [cachedData EXCEPT ![c] = d]
    /\ IF ~d.isNull /\ NeedsUpdate(d)
       THEN /\ pc' = [pc EXCEPT ![c] = "done"]
            /\ result' = [result EXCEPT ![c] = Returned(d)]
       ELSE /\ pc' = [pc EXCEPT ![c] = "fc_settings"]
            /\ result' = result

\* combineData from the return of getCachedData (value d) to its next await:
\* either the cached dataset is returned, or fetchConsumptionData is entered
\* and suspends on AsyncStorage.getItem.
AfterGetCachedData(c, d) ==
    /\ cachedData' = [cachedData EXCEPT ![c] = d]
    /\ IF ~d.isNull /\ ~NeedsUpdate(d)
       THEN /\ pc' = [pc EXCEPT ![c] = "done"]
            /\ result' = [result EXCEPT ![c] = Returned(d)]
       ELSE /\ pc' = [pc EXCEPT ![c] = "fc_settings"]
            /\ result' = result

\* The catch block of fetchData: the error is shown, the data shown before
\* are kept.
FetchDataCatch(c, e) ==
    /\ delivered' = [delivered EXCEPT ![c] = TRUE]
    /\ shown' = [shown EXCEPT !.isLoading = FALSE, !.error = e]

\* fetchData is invoked with settings.year = y: it clears the error, sets
\* isLoading and suspends on the axios.get of getCurrentSpotPrice.
Start(c, y) ==
    /\ pc[c] = "idle"
    /\ pc' = [pc EXCEPT ![c] = "spot"]
    /\ year' = [year EXCEPT ![c] = y]
    /\ selectedYear' = y
    /\ startedAt' = [startedAt EXCEPT ![c] = resetPc]
    /\ shown' = [shown EXCEPT !.isLoading = TRUE, !.error = NoError]
    /\ UNCHANGED <<defn, provider, faults, engine, resetPc, hookUsername, onboarded, shownYear,
                   currentSpotPrice, delivered, received, priceFetch, joined,
                   writes, now, settings, password, dirExists, cache,
                   cachedData, req, attempt, sent, waited, cause, handed,
                   responses, http, spawned, saves, caught, result>>

\* The axios.get of getCurrentSpotPrice answers with o.  With a price,
\* combineData(settings.year) is called and getCachedData suspends on
\* getInfoAsync; otherwise fetchData ends in its catch block.
SpotAnswer(c, o) ==
    /\ pc[c] = "spot"
    /\ LET spot == SpotPriceOf(o)
       IN  IF spot.ok
           THEN /\ pc' = [pc EXCEPT ![c] = "gc_info"]
                /\ currentSpotPrice' = [currentSpotPrice EXCEPT ![c] = spot.price]
                /\ UNCHANGED <<delivered, shown>>
           ELSE /\ pc' = [pc EXCEPT ![c] = "notCalled"]
                /\ FetchDataCatch(c, spot.error)
                /\ UNCHANGED currentSpotPrice
    /\ UNCHANGED <<defn, provider, faults, engine, resetPc, hookUsername, onboarded, startedAt, selectedYear, shownYear,
                   year, received, priceFetch, joined, writes, now,
                   settings, password, dirExists, cache, cachedData, req,
                   attempt, sent, waited, cause, handed, responses, http,
                   spawned, saves, caught, result>>

\* getCachedData: getInfoAsync answers.
GetInfo(c) ==
    /\ pc[c] = "gc_info"
    /\ IF dirExists /\ cache[year[c]].kind # "absent"
       THEN /\ pc' = [pc EXCEPT ![c] = "gc_read"]
            /\ UNCHANGED <<cachedData, result>>
       ELSE AfterGetCachedData(c, Null)
    /\ UNCHANGED <<caught, defn, provider, faults, engine, resetPc, hookUsername, onboarded, startedAt, selectedYear, shownYear, currentSpotPrice, delivered, shown, received, priceFetch, joined,
                   writes, now, settings, password, dirExists, cache, year,
                   req, attempt, sent, waited, cause, handed, responses, http,
                   spawned, saves>>

\* getCachedData: readAsStringAsync answers, JSON.parse, validation.  The
\* first definition deletes what it cannot use; the second returns whatever
\* parses and null otherwise.
ReadBlob(c) ==
    /\ pc[c] = "gc_read"
    /\ LET blob == IF dirExists THEN cache[year[c]] ELSE AbsentBlob
       IN  IF defn = 1
           THEN IF blob.kind = "json" /\ PassesValidation(blob.data)
                THEN AfterGetCachedData(c, blob.data)
                ELSE /\ pc' = [pc EXCEPT ![c] = "gc_delete"]
                     /\ UNCHANGED <<cachedData, result>>
           ELSE IF blob.kind = "json"
                THEN AfterGetCachedData(c, blob.data)
                ELSE AfterGetCachedData(c, Null)
    /\ UNCHANGED <<caught, defn, provider, faults, engine, resetPc, hookUsername, onboarded, startedAt, selectedYear, shownYear, currentSpotPrice, delivered, shown, received, priceFetch, joined,
                   writes, now, settings, password, dirExists, cache, year,
                   req, attempt, sent, waited, cause, handed, responses, http,
                   spawned, saves>>

\* getCachedData (first definition): deleteAsync completes, null is returned.
DeleteBlob(c) ==
    /\ pc[c] = "gc_delete"
    /\ cache' = [cache EXCEPT ![year[c]] = AbsentBlob]
    /\ AfterGetCachedData(c, Null)
    /\ UNCHANGED <<caught, defn, provider, faults, engine, resetPc, hookUsername, onboarded, startedAt, selectedYear, shownYear, currentSpotPrice, delivered, shown, received, priceFetch, joined,
                   writes, now, settings, password, dirExists, year, req,
                   attempt, sent, waited, cause, handed, responses, http,
                   spawned, saves>>

\* ------------------------------------------------- fetchConsumptionData

\* makeRequestWithRetry(method, url, config) with attempt = 0 is entered for
\* request r and suspends on axios.request.
IssueRequest(c, r) ==
    /\ pc' = [pc EXCEPT ![c] = "http"]
    /\ req' = [req EXCEPT ![c] = r]
    /\ attempt' = [attempt EXCEPT ![c] = 0]
    /\ sent' = [sent EXCEPT ![c] = 1]
    /\ waited' = [waited EXCEPT ![c] = <<>>]
    /\ http' = [http EXCEPT ![c] = @ \cup {"consumption"}]

\* fetchPriceData is entered and suspends on axios.get.
IssuePriceRequest(c) ==
    /\ pc' = [pc EXCEPT ![c] = "price"]
    /\ http' = [http EXCEPT ![c] = @ \cup {"price"}]
    /\ priceFetch' = [priceFetch EXCEPT ![c] = [sent |-> @.sent + 1, outcome |-> "pending",
                                                       raw |-> <<>>, rows |-> <<>>]]

\* AsyncStorage.getItem('app_settings') answers.
FcSettings(c) ==
    /\ pc[c] = "fc_settings"
    /\ IF settings = "absent" THEN Catch(c, Err("No settings found", 0))
       ELSE IF settings = "noUsername" THEN Catch(c, Err("No username found in settings", 0))
       ELSE /\ pc' = [pc EXCEPT ![c] = "fc_password"]
            /\ UNCHANGED <<caught, result>>
    /\ UNCHANGED <<defn, provider, faults, engine, resetPc, hookUsername, onboarded, startedAt, selectedYear, shownYear, currentSpotPrice, delivered, shown, received, priceFetch, joined, writes, now,
                   settings, password, dirExists, cache, year, cachedData,
                   req, attempt, sent, waited, cause, handed, responses, http,
                   spawned, saves>>

\* Mutation of FcPassword: the token request is issued whether or not a
\* password is stored.
FcPassword_NoCheck(c) ==
    /\ pc[c] = "fc_password"
    /\ IssueRequest(c, "token")
    /\ UNCHANGED <<caught, result>>
    /\ UNCHANGED <<defn, provider, faults, engine, resetPc, hookUsername, onboarded,
                   startedAt, selectedYear, shownYear, currentSpotPrice, delivered,
                   shown, received, priceFetch, joined, writes, now, settings,
                   password, dirExists, cache, year, cachedData, cause, handed,
                   responses, spawned, saves>>

\* secureStorage.getPassword answers; with a password getCognitoToken issues
\* the token request.
FcPassword(c) ==
    /\ pc[c] = "fc_password"
    /\ IF password
       THEN /\ IssueRequest(c, "token")
            /\ UNCHANGED <<caught, result>>
       ELSE /\ Catch(c, Err("No password found", 0))
            /\ UNCHANGED <<req, attempt, sent, waited, http>>
    /\ UNCHANGED <<defn, provider, faults, engine, resetPc, hookUsername, onboarded, startedAt, selectedYear, shownYear, currentSpotPrice, delivered, shown, received, priceFetch, joined, writes, now,
                   settings, password, dirExists, cache, year, cachedData,
                   cause, handed, responses, spawned, saves>>

\* ----------------------------------------------------- makeRequestWithRetry

\* What one axios.request can do: resolve with a response of some status, or
\* reject with an error (no response, or a response whose status axios
\* rejects).
Statuses == {200, 504}
\* The attempt in progress may fail.
Fault(c) == faults = Unlimited \/ attempt[c] < faults
Rejections == {"NetworkError", "Http401", "Http504"}
\* The bodies the request in progress can be answered with.
Bodies(c) ==
    CASE req[c] = "customer" -> CustomerBodies
      [] req[c] = "readings" -> ReadingsOf(provider)
      [] OTHER -> {TokenBody}

\* The callers of makeRequestWithRetry read fields of response.data that a
\* 504 body does not have (AuthenticationResult.AccessToken, customer_datas,
\* months): the dereference throws a TypeError inside their try block.
Dereference504 == Err("TypeError", 0)

\* makeRequestWithRetry schedules the backoff timer and suspends on it.
ScheduleRetry(c, why) ==
    /\ pc' = [pc EXCEPT ![c] = "backoff"]
    /\ cause' = [cause EXCEPT ![c] = why]
    /\ waited' = [waited EXCEPT ![c] = Append(@, waitTime(attempt[c]))]

\* axios.request resolves: the try branch of makeRequestWithRetry, and when
\* it returns, the caller's continuation up to the next await.  For the
\* meter readings that is the rest of getMeterReadings, which throws a
\* TypeError on a month whose hourly_values is not an array.
HttpResponse(c, status) ==
    /\ pc[c] = "http"
    /\ status = 504 => Fault(c)
    /\ \E body \in Bodies(c) :
           /\ IF status = 504 /\ MayRetry(attempt[c])
              THEN /\ ScheduleRetry(c, "Status504")
                   /\ UNCHANGED <<req, attempt, sent, handed, received, responses,
                                  http, priceFetch, caught, result>>
              ELSE /\ handed' = [handed EXCEPT ![c] = status]
                   /\ IF status = 504
                      THEN /\ cause' = [cause EXCEPT ![c] = "Status504"]
                           /\ Catch(c, Dereference504)
                           /\ UNCHANGED <<req, attempt, sent, waited, received,
                                          responses, http, priceFetch>>
                      ELSE CASE req[c] = "token" ->
                                /\ IssueRequest(c, "customer")
                                /\ UNCHANGED <<cause, received, responses, priceFetch,
                                               caught, result>>
                             [] req[c] = "customer" /\ body.ok ->
                                /\ IssueRequest(c, "readings")
                                /\ UNCHANGED <<cause, received, responses, priceFetch,
                                               caught, result>>
                             [] req[c] = "customer" /\ ~body.ok ->
                                /\ responses' = [responses EXCEPT ![c] = Responses(<<>>)]
                                /\ IssuePriceRequest(c)
                                /\ UNCHANGED <<cause, received, req, attempt, sent,
                                               waited, caught, result>>
                             [] req[c] = "readings" /\ ~body.ok ->
                                /\ Catch(c, Err("TypeError", 0))
                                /\ UNCHANGED <<cause, req, attempt, sent, waited,
                                               received, responses, http, priceFetch>>
                             [] OTHER ->
                                /\ received' = [received EXCEPT ![c] = body.months]
                                /\ responses' = [responses EXCEPT ![c] = Responses(
                                       <<[i \in 1..Len(body.months) |-> NormalizeMonth(body.months[i])]>>)]
                                /\ IssuePriceRequest(c)
                                /\ UNCHANGED <<cause, req, attempt, sent, waited,
                                               caught, result>>
    /\ UNCHANGED <<defn, provider, faults, engine, resetPc, hookUsername, onboarded, startedAt, selectedYear, shownYear, currentSpotPrice, delivered,
                   shown, joined, writes, now, settings, password, dirExists,
                   cache, year, cachedData, spawned, saves>>

\* Mutation of HttpReject: the catch branch issues the request again at once
\* under the same attempt number, so failed attempts are not counted.
HttpReject_RetriesUncounted(c, e) ==
    /\ pc[c] = "http"
    /\ Fault(c)
    /\ cause' = [cause EXCEPT ![c] = e]
    /\ UNCHANGED <<defn, provider, faults, engine, resetPc, hookUsername, onboarded,
                   startedAt, selectedYear, shownYear, currentSpotPrice, delivered,
                   shown, received, priceFetch, joined, writes, now, settings,
                   password, dirExists, cache, pc, year, cachedData, req, attempt,
                   sent, waited, handed, responses, http, spawned, saves, caught,
                   result>>

\* axios.request rejects: the catch branch of makeRequestWithRetry.
HttpReject(c, e) ==
    /\ pc[c] = "http"
    /\ Fault(c)
    /\ IF MayRetry(attempt[c])
       THEN /\ ScheduleRetry(c, e)
            /\ UNCHANGED <<caught, result>>
       ELSE /\ cause' = [cause EXCEPT ![c] = e]
            /\ Catch(c, Err(e, attempt[c]))
            /\ waited' = waited
    /\ UNCHANGED <<defn, provider, faults, engine, resetPc, hookUsername, onboarded, startedAt, selectedYear, shownYear, currentSpotPrice, delivered,
                   shown, received, priceFetch, joined, writes, now, settings,
                   password, dirExists, cache, year, cachedData, req, attempt,
                   sent, handed, responses, http, spawned, saves>>

\* The backoff timer fires: makeRequestWithRetry(..., attempt + 1) issues the
\* next axios.request.
Backoff(c) ==
    /\ pc[c] = "backoff"
    /\ pc' = [pc EXCEPT ![c] = "http"]
    /\ attempt' = [attempt EXCEPT ![c] = @ + 1]
    /\ sent' = [sent EXCEPT ![c] = @ + 1]
    /\ cause' = [cause EXCEPT ![c] = "none"]
    /\ http' = [http EXCEPT ![c] = @ \cup {"consumption"}]
    /\ UNCHANGED <<caught, defn, provider, faults, engine, resetPc, hookUsername, onboarded, startedAt, selectedYear, shownYear, currentSpotPrice, delivered, shown, received, priceFetch, joined,
                   writes, now, settings, password, dirExists, cache, year,
                   cachedData, req, waited, handed, responses, spawned, saves,
                   result>>

\* ------------------------------------------- fetchPriceData and the join

\* Outcomes of the single axios.get of fetchPriceData: a rejection, or a
\* response with price rows.
PriceOutcomes == {PriceRejected(e) : e \in Rejections} \cup {PriceData(d) : d \in PricesHeld(provider)}

\* How the price request ended: axios.get rejected, a row made toISOString
\* throw, or the rows were processed.
PriceFetchEnd(o) ==
    IF o.kind = "rejected" THEN "rejected"
    ELSE IF \E i \in 1..Len(o.data) : o.data[i].timeStamp.kind # "time" THEN "malformed"
    ELSE "ok"

\* Mutation of PricesOf: a rejected price request is swallowed and stands
\* for an empty price list.
PricesOf_SwallowsRejection(o) ==
    IF o.kind = "rejected" THEN [ok |-> TRUE, rows |-> <<>>, error |-> NoError]
    ELSE LET processed == ProcessedPrices(o.data)
         IN  [ok |-> processed.ok, rows |-> processed.rows,
              error |-> IF processed.ok THEN NoError ELSE Err("RangeError", 0)]

\* fetchPriceData from the answer of axios.get on: the processed rows, or
\* the error it rethrows.
PricesOf(o) ==
    IF o.kind = "rejected" THEN [ok |-> FALSE, rows |-> <<>>, error |-> Err(o.error, 0)]
    ELSE LET processed == ProcessedPrices(o.data)
         IN  [ok |-> processed.ok, rows |-> processed.rows,
              error |-> IF processed.ok THEN NoError ELSE Err("RangeError", 0)]

\* Mutation of StartSave: the save is started although the join threw.
StartSave_Always(c, error, yearData) ==
    /\ spawned' = [spawned EXCEPT ![c] = TRUE]
    /\ saves' = saves \cup
           {[by |-> c, year |-> year[c], data |-> yearData, step |-> "dirinfo"]}

\* this.saveToCache(year, yearData) is called, not awaited, once yearData is
\* built; it suspends on getInfoAsync.  A join that threw never gets there.
StartSave(c, error, yearData) ==
    IF error = NoError
    THEN /\ spawned' = [spawned EXCEPT ![c] = TRUE]
         /\ saves' = saves \cup
                {[by |-> c, year |-> year[c], data |-> yearData, step |-> "dirinfo"]}
    ELSE UNCHANGED <<spawned, saves>>

\* axios.get of fetchPriceData answers.  When fetchPriceData returns,
\* combineData builds the price map, joins, aggregates, starts saveToCache
\* and returns; an error of either goes to the catch block.
PriceAnswer(c, o) ==
    /\ pc[c] = "price"
    /\ LET fetched == PricesOf(o)
           combined == Reconcile(defn, responses[c].list, fetched.rows)
           yearData == YearData(now, ArrayOf(combined.hourly), ArrayOf(combined.monthly))
       IN  /\ priceFetch' = [priceFetch EXCEPT ![c].outcome = PriceFetchEnd(o),
                                                ![c].raw = o.data,
                                                ![c].rows = fetched.rows]
           /\ IF ~fetched.ok THEN
                /\ Catch(c, fetched.error)
                /\ UNCHANGED <<joined, spawned, saves>>
              ELSE
                /\ joined' = [joined EXCEPT ![c] = TRUE]
                /\ StartSave(c, combined.error, yearData)
                /\ IF combined.error # NoError
                   THEN Catch(c, combined.error)
                   ELSE /\ pc' = [pc EXCEPT ![c] = "done"]
                        /\ caught' = caught
                        /\ result' = [result EXCEPT ![c] = Returned(yearData)]
    /\ UNCHANGED <<defn, provider, faults, engine, resetPc, hookUsername, onboarded, startedAt, selectedYear, shownYear, currentSpotPrice, delivered, shown, received, writes, now, settings, password,
                   dirExists, cache, year, cachedData, req, attempt, sent,
                   waited, cause, handed, responses, http>>

\* --------------------------------------------------------------- fetchData

\* combineData has returned or thrown: fetchData builds baseData, applies the
\* spot margin and sets the state, or ends in its catch block.  A dataset
\* whose hourly field is not an array makes applySpotMargin throw a TypeError.
SetData(c, spotMargin) ==
    /\ pc[c] = "done" /\ ~delivered[c]
    /\ IF result[c].kind = "error"
       THEN FetchDataCatch(c, result[c].error) /\ shownYear' = shownYear
       ELSE IF ~result[c].data.hourly.isArray
       THEN FetchDataCatch(c, Err("TypeError", 0)) /\ shownYear' = shownYear
       ELSE /\ delivered' = [delivered EXCEPT ![c] = TRUE]
            /\ shownYear' = year[c]
            /\ shown' = applySpotMargin(
                          [currentPrice |-> currentSpotPrice[c],
                           currentPriceWithMargin |-> NoPrice,
                           hourlyData |-> result[c].data.hourly.content,
                           monthlyData |-> result[c].data.monthly.content,
                           isLoading |-> FALSE,
                           error |-> NoError],
                          spotMargin)
    /\ UNCHANGED <<defn, provider, faults, engine, resetPc, hookUsername, onboarded, startedAt, selectedYear, currentSpotPrice, received, priceFetch,
                   joined, writes, now, settings, password, dirExists, cache,
                   pc, year, cachedData, req, attempt, sent, waited, cause,
                   handed, responses, http, spawned, saves, caught, result>>

\* ------------------------------------------------------------- saveToCache

\* ensureCacheDirectory: getInfoAsync answers.
SaveDirInfo(t) ==
    /\ t \in saves /\ t.step = "dirinfo"
    /\ saves' = (saves \ {t}) \cup
           {[t EXCEPT !.step = IF dirExists THEN "write" ELSE "mkdir"]}
    /\ UNCHANGED <<caught, defn, provider, faults, engine, resetPc, hookUsername, onboarded, startedAt, selectedYear, shownYear, currentSpotPrice, delivered, shown, received, priceFetch, joined,
                   writes, now, settings, password, dirExists, cache, pc,
                   year, cachedData, req, attempt, sent, waited, cause,
                   handed, responses, http, spawned, result>>

\* ensureCacheDirectory: makeDirectoryAsync completes.
SaveMkdir(t) ==
    /\ t \in saves /\ t.step = "mkdir"
    /\ dirExists' = TRUE
    /\ saves' = (saves \ {t}) \cup {[t EXCEPT !.step = "write"]}
    /\ UNCHANGED <<caught, defn, provider, faults, engine, resetPc, hookUsername, onboarded, startedAt, selectedYear, shownYear, currentSpotPrice, delivered, shown, received, priceFetch, joined,
                   writes, now, settings, password, cache, pc, year,
                   cachedData, req, attempt, sent, waited, cause, handed,
                   responses, http, spawned, result>>

\* writeAsStringAsync completes; it throws when the directory is gone, which
\* saveToCache only logs.
SaveWrite(t) ==
    /\ t \in saves /\ t.step = "write"
    /\ saves' = saves \ {t}
    /\ IF dirExists
       THEN /\ cache' = [cache EXCEPT ![t.year] = JsonBlob(t.data)]
            /\ writes' = [writes EXCEPT ![t.by] = @ + 1]
       ELSE UNCHANGED <<cache, writes>>
    /\ UNCHANGED <<caught, defn, provider, faults, engine, resetPc, hookUsername, onboarded, startedAt, selectedYear, shownYear, currentSpotPrice, delivered, shown, received, priceFetch, joined, now,
                   settings, password, dirExists, pc, year, cachedData, req,
                   attempt, sent, waited, cause, handed, responses, http,
                   spawned, result>>

\* ------------------------------------------------------------------- clock

\* A later day begins while a call is in flight.  Between the staleness test
\* and the construction of yearData nothing reads the clock, so a day change
\* anywhere in between is the same as one just before the price answer.
Tick ==
    /\ \E c \in Callers : pc[c] = "price"
    /\ \E d \in Dates : DateLT(now, d) /\ now' = d
    /\ UNCHANGED <<caught, defn, provider, faults, engine, resetPc, hookUsername, onboarded, startedAt, selectedYear, shownYear, currentSpotPrice, delivered, shown, received, priceFetch, joined,
                   writes, settings, password, dirExists, cache, pc, year,
                   cachedData, req, attempt, sent, waited, cause, handed,
                   responses, http, spawned, saves, result>>

\* ------------------------------------------------------------- handleReset

\* The variables of the refreshes, which handleReset does not touch.
refreshVars ==
    <<defn, provider, faults, engine, startedAt, selectedYear, shownYear,
      currentSpotPrice, delivered, shown, now, pc, year, cachedData, req,
      attempt, sent, waited, cause, handed, received, responses, http,
      priceFetch, joined, spawned, writes, saves, caught, result>>

\* An await of the try block rejects: the catch block shows the alert.
ResetFails ==
    /\ resetPc' = "failed"
    /\ UNCHANGED <<settings, onboarded, password, dirExists, cache>>

\* The user confirms Reset: onPress calls AsyncStorage.clear and suspends.
ResetPress ==
    /\ resetPc = "idle"
    /\ resetPc' = "clear"
    /\ UNCHANGED <<refreshVars, hookUsername, settings, onboarded, password,
                   dirExists, cache>>

\* AsyncStorage.clear settles; then secureStorage.removePassword is called.
ResetClear(ok) ==
    /\ resetPc = "clear"
    /\ IF ok
       THEN /\ resetPc' = "password"
            /\ settings' = "absent"
            /\ onboarded' = FALSE
            /\ UNCHANGED <<password, dirExists, cache>>
       ELSE ResetFails
    /\ UNCHANGED <<refreshVars, hookUsername>>

\* secureStorage.removePassword settles; then deleteAsync of the cache
\* directory is called.
ResetPassword(ok) ==
    /\ resetPc = "password"
    /\ IF ok
       THEN /\ resetPc' = "cache"
            /\ password' = FALSE
            /\ UNCHANGED <<settings, onboarded, dirExists, cache>>
       ELSE ResetFails
    /\ UNCHANGED <<refreshVars, hookUsername>>

\* FileSystem.deleteAsync(cacheDir, {idempotent: true}) settles; then
\* updateSettings(defaultSettings) is called and suspends on setItem.
ResetCache(ok) ==
    /\ resetPc = "cache"
    /\ IF ok
       THEN /\ resetPc' = "settings"
            /\ dirExists' = FALSE
            /\ cache' = [y \in Years |-> AbsentBlob]
            /\ UNCHANGED <<settings, onboarded, password>>
       ELSE ResetFails
    /\ UNCHANGED <<refreshVars, hookUsername>>

\* updateSettings(defaultSettings): setItem stores {...settings,
\* ...newSettings}, where settings is the state of the hook and
\* defaultSettings has no eleniaUsername key.  A rejection of setItem is
\* caught inside updateSettings, which returns false; handleReset goes on
\* to notifySettingsChanged either way.
ResetSettings(ok) ==
    /\ resetPc = "settings"
    /\ resetPc' = "notify"
    /\ IF ok
       THEN /\ settings' = IF hookUsername THEN "ok" ELSE "noUsername"
            /\ onboarded' = FALSE
       ELSE UNCHANGED <<settings, onboarded>>
    /\ UNCHANGED <<refreshVars, hookUsername, password, dirExists, cache>>

\* notifySettingsChanged resolves; router.replace('/onboarding') ends the
\* try block.
ResetNotified ==
    /\ resetPc = "notify"
    /\ resetPc' = "done"
    /\ UNCHANGED <<refreshVars, hookUsername, settings, onboarded, password,
                   dirExists, cache>>

Reset ==
    \/ ResetPress
    \/ \E ok \in BOOLEAN : ResetClear(ok)
    \/ \E ok \in BOOLEAN : ResetPassword(ok)
    \/ \E ok \in BOOLEAN : ResetCache(ok)
    \/ \E ok \in BOOLEAN : ResetSettings(ok)
    \/ ResetNotified

Next ==
    \/ \E c \in Callers, y \in Years : Start(c, y)
    \/ \E c \in Callers, o \in SpotOutcomes : SpotAnswer(c, o)
    \/ \E c \in Callers : GetInfo(c)
    \/ \E c \in Callers : ReadBlob(c)
    \/ \E c \in Callers : DeleteBlob(c)
    \/ \E c \in Callers : FcSettings(c)
    \/ \E c \in Callers : FcPassword(c)
    \/ \E c \in Callers, st \in Statuses : HttpResponse(c, st)
    \/ \E c \in Callers, e \in Rejections : HttpReject(c, e)
    \/ \E c \in Callers : Backoff(c)
    \/ \E c \in Callers, o \in PriceOutcomes : PriceAnswer(c, o)
    \/ \E c \in Callers, m \in Margins : SetData(c, m)
    \/ \E t \in saves : SaveDirInfo(t)
    \/ \E t \in saves : SaveMkdir(t)
    \/ \E t \in saves : SaveWrite(t)
    \/ Tick

Spec == Init /\ [][Next]_vars
SpecJoin == InitJoin /\ [][Next]_vars
SpecConcurrent == InitConcurrent /\ [][Next]_vars

\* Sessions in which the user presses Reset.
NextReset == Next \/ Reset
SpecReset == InitReset /\ [][NextReset]_vars

\* Every operation a call awaits completes: the storage reads, each HTTP
\* attempt (with a response or a rejection), the backoff timer and the price
\* request.
AttemptCompletes(c) ==
    \/ \E st \in Statuses : HttpResponse(c, st)
    \/ \E e \in Rejections : HttpReject(c, e)
Completion ==
    \A c \in Callers :
        /\ WF_vars(AttemptCompletes(c))
        /\ WF_vars(Backoff(c))
        /\ WF_vars(FcSettings(c))
        /\ WF_vars(FcPassword(c))
        /\ WF_vars(\E o \in PriceOutcomes : PriceAnswer(c, o))
SpecLive == InitLive /\ [][Next]_vars /\ Completion

TypeOK ==
    /\ defn \in Definitions
    /\ now \in Dates
    /\ \A c \in Callers : attempt[c] \in 0..maxRetries

\* ================================================================== claims

\* The staleness rule as the specification words it: stale when lastUpdated
\* is absent, or when its year is the current year and it lies on another
\* local calendar day than now.
SameLocalDay(lu, n) ==
    lu.tag = "date" /\ lu.year = n.year /\ lu.month = n.month /\ lu.date = n.date
StaleByRule(lu, n) ==
    \/ lu.tag = "missing"
    \/ lu.tag = "date" /\ lu.year = n.year /\ ~SameLocalDay(lu, n)

\* A structurally valid dataset: lastUpdated present, hourly and monthly arrays.
IsValid(d) ==
    /\ ~d.isNull
    /\ d.lastUpdated.tag # "missing"
    /\ d.hourly.isArray
    /\ d.monthly.isArray

\* getCachedData of caller c returns in this step
GetCachedDataReturns(c) ==
    pc[c] \in {"gc_info", "gc_read", "gc_delete"} /\ pc'[c] \in {"done", "fc_settings"}

\* the blob getCachedData of caller c is reading
BlobRead(c) == IF dirExists THEN cache[year[c]] ELSE AbsentBlob

\* C1: when combineData has read a structurally valid cached dataset and the
\* fetch or the reconciliation that follows fails, it returns that cached
\* dataset and surfaces no error.
C1_StaleFallback ==
    \A c \in Callers :
        (pc[c] = "done" /\ caught[c] # NoError /\ IsValid(cachedData[c]))
            => result[c] = Returned(cachedData[c])

\* C2: when no valid cached dataset exists and the fetch or reconciliation
\* fails, combineData fails with that very error and returns no dataset.
C2_ErrorPropagates ==
    \A c \in Callers :
        (pc[c] = "done" /\ caught[c] # NoError /\ ~IsValid(cachedData[c]))
            => result[c] = Thrown(caught[c])

C2_Witness ==
    \E c \in Callers :
        /\ pc[c] = "done" /\ cachedData[c].isNull
        /\ caught[c] = Err("Http504", maxRetries - 1)
        /\ result[c].kind = "error"

\* C3: when the cached dataset of the requested year is structurally valid
\* and not stale, combineData returns exactly that dataset, and the call
\* sends no request to either provider and writes nothing to the cache.
C3_FreshCacheServed ==
    [][\A c \in Callers :
          (/\ pc[c] = "gc_read" /\ pc'[c] # "gc_read"
           /\ BlobRead(c).kind = "json"
           /\ IsValid(BlobRead(c).data)
           /\ ~StaleByRule(BlobRead(c).data.lastUpdated, now))
          => /\ pc'[c] = "done"
             /\ result'[c] = Returned(BlobRead(c).data)
             /\ http'[c] = {}
             /\ ~spawned'[c]
             /\ saves' = saves
             /\ cache' = cache]_vars

C3_Witness ==
    \E c \in Callers :
        /\ pc[c] = "done" /\ caught[c] = NoError /\ ~spawned[c]
        /\ IsValid(cachedData[c])
        /\ SameLocalDay(cachedData[c].lastUpdated, now)
        /\ result[c] = Returned(cachedData[c])

\* C4: the staleness decision is true exactly when lastUpdated is absent, or
\* when its local year is the current year and it falls on another local
\* calendar day than now; in every other case it is false.
C4_StalenessRule ==
    [][\A c \in Callers :
          (GetCachedDataReturns(c) /\ ~cachedData'[c].isNull)
          => ((pc'[c] = "fc_settings") <=> StaleByRule(cachedData'[c].lastUpdated, now))]_vars

C4_Witness ==
    \E c \in Callers :
        /\ pc[c] = "fc_settings"
        /\ cachedData[c].lastUpdated.tag = "date"
        /\ cachedData[c].lastUpdated.year = now.year
        /\ cachedData[c].lastUpdated.month # now.month
        /\ cachedData[c].lastUpdated.date = now.date

\* C5: a structurally valid cached file for a year earlier than the current
\* year is returned without refetching, whatever its lastUpdated and now.
C5_PastYearNeverStale ==
    [][\A c \in Callers :
          (/\ pc[c] = "gc_read" /\ pc'[c] # "gc_read"
           /\ year[c] < now.year
           /\ BlobRead(c).kind = "json"
           /\ IsValid(BlobRead(c).data))
          => /\ pc'[c] = "done"
             /\ result'[c] = Returned(BlobRead(c).data)]_vars

\* C6: when the blob read cannot be parsed, lacks lastUpdated or has an
\* hourly or monthly field that is not an array, getCachedData deletes it and
\* reports the dataset absent, combineData goes on to a fresh fetch, and
\* malformed content is never returned.
Malformed(b) == b.kind = "garbage" \/ (b.kind = "json" /\ ~IsValid(b.data))
C6_MalformedBlobDeleted ==
    [][\A c \in Callers :
          /\ (GetCachedDataReturns(c) /\ Malformed(BlobRead(c)))
              => /\ cachedData'[c] = Null
                 /\ cache'[year[c]] = AbsentBlob
                 /\ pc'[c] = "fc_settings"
          /\ result'[c].kind = "data" => IsValid(result'[c].data)]_vars

\* C7: one call of makeRequestWithRetry makes at most 5 HTTP attempts.
C7_AtMostFiveAttempts ==
    \A c \in Callers : sent[c] <= 5

C7_Witness ==
    \E c \in Callers :
        /\ pc[c] = "done" /\ sent[c] = 5
        /\ caught[c] = Err("NetworkError", 4)

\* C8: the wait before attempt k >= 1 is 2^(k-1) seconds, so five failures
\* wait 1, 2, 4 and 8 seconds (15 in total) and nothing after the last one.
RECURSIVE SumSeq(_)
SumSeq(q) == IF q = <<>> THEN 0 ELSE Head(q) + SumSeq(Tail(q))
C8_BackoffSchedule ==
    \A c \in Callers :
        /\ Len(waited[c]) = (IF pc[c] = "backoff" THEN attempt[c] + 1 ELSE attempt[c])
        /\ Len(waited[c]) <= 4
        /\ \A k \in 1..Len(waited[c]) : waited[c][k] = 2 ^ (k - 1)
        /\ sent[c] = 5 => (waited[c] = <<1, 2, 4, 8>> /\ SumSeq(waited[c]) = 15)

C8_Witness ==
    \E c \in Callers :
        /\ pc[c] = "done" /\ sent[c] = 5 /\ result[c].kind = "error"
        /\ waited[c] = <<1, 2, 4, 8>>

\* C9: after a failure with a non-transient error status (an authentication
\* failure) no backoff wait and no further attempt of the request is made.
C9_NoRetryOnAuthFailure ==
    \A c \in Callers : pc[c] = "backoff" => cause[c] # "Http401"

\* C10: when every attempt ends in a network failure or a 504, the request
\* fails with the error of the last attempt and never hands a 504 response
\* back to its caller as a result.
TransientCauses == {"NetworkError", "Http504", "Status504"}
C11_PriceFetchRetried ==
    \A c \in Callers :
        (pc[c] = "done" /\ priceFetch[c].outcome = "rejected")
            => priceFetch[c].sent = maxRetries

\* The dataset a call has freshly reconciled and returned.
Reconciled(c) == pc[c] = "done" /\ joined[c] /\ caught[c] = NoError
Hourly(c) == result[c].data.hourly.content
Monthly(c) == result[c].data.monthly.content

\* C12: in every run the blob of the year is written at most once, and only
\* with the dataset the run returned after both fetches and the whole join
\* and aggregation completed; a run that fails writes nothing and leaves no
\* write pending.
C12_WriteAfterCompletion ==
    [][/\ \A y \in Years :
            (cache'[y] # cache[y] /\ cache'[y].kind = "json")
            => \E c \in Callers :
                  /\ year[c] = y /\ Reconciled(c)
                  /\ responses[c].returned /\ priceFetch[c].outcome = "ok"
                  /\ result[c] = Returned(cache'[y].data)
       /\ \A c \in Callers :
            /\ writes'[c] <= 1
            /\ (pc'[c] # "done" \/ caught'[c] # NoError)
                => (writes'[c] = 0 /\ ~\E t \in saves' : t.by = c)]_vars

C12_Witness ==
    \E c \in Callers :
        /\ Reconciled(c) /\ writes[c] = 1 /\ saves = {}
        /\ Len(Hourly(c)) > 0
        /\ cache[year[c]] = JsonBlob(result[c].data)

\* C13: for each year at most one fetch+reconcile is in flight at any time.
Fetching(c) == pc[c] \in {"fc_settings", "fc_password", "http", "backoff", "price"}
C13_OneFetchPerYear ==
    \A a, b \in Callers :
        (a # b /\ year[a] = year[b]) => ~(Fetching(a) /\ Fetching(b))

\* C14: within one run, building the price index and joining never begins
\* before both the consumption fetch and the price fetch have completed
\* successfully.
C14_JoinAfterBothFetches ==
    \A c \in Callers :
        joined[c] => /\ responses[c].returned
                     /\ handed[c] = 200
                     /\ priceFetch[c].outcome = "ok"

C14_Witness ==
    \E c \in Callers :
        /\ Reconciled(c) /\ Len(Hourly(c)) > 0
        /\ priceFetch[c].sent = 1 /\ "consumption" \in http[c]

\* A record of the ledger stems from a reading: same instant, and the kWh of
\* the reading's value.
Stems(record, reading) ==
    /\ reading.t.kind = "time" /\ reading.v.type = "number"
    /\ getTime(record.timestamp) = getTime(reading.t)
    /\ record.consumption_kWh = RoundDiv(reading.v.n, 10)
NonEmpty(variant) == variant.present /\ Len(variant.items) > 0
Items(variant) == {variant.items[i] : i \in 1..Len(variant.items)}
Records(c) == {Hourly(c)[i] : i \in 1..Len(Hourly(c))}

\* C15: for every month group as the provider sent it, when the netted
\* variant is non-empty no hourly record stems from a gross reading of the
\* group, and a record stems from a gross reading only when the netted
\* variant is absent or empty.
C15_NettedSupersedesGross ==
    \A c \in Callers :
        Reconciled(c) =>
            \A i \in 1..Len(received[c]) :
                LET group == received[c][i]
                    grossUsed == \E r \in Records(c), g \in Items(group.hourly_values) : Stems(r, g)
                    nettedUsed == \E r \in Records(c), n \in Items(group.hourly_values_netted) : Stems(r, n)
                IN  /\ NonEmpty(group.hourly_values_netted) => ~grossUsed
                    /\ grossUsed => ~NonEmpty(group.hourly_values_netted)
                    /\ ~(grossUsed /\ nettedUsed)

C15_Witness ==
    \E c \in Callers :
        /\ Reconciled(c)
        /\ \E i \in 1..Len(received[c]) :
              /\ NonEmpty(received[c][i].hourly_values_netted)
              /\ NonEmpty(received[c][i].hourly_values)
              /\ \E r \in Records(c), n \in Items(received[c][i].hourly_values_netted) : Stems(r, n)

\* The readings the netted-supersedes-gross rule selects from what
\* fetchConsumptionData returned, in order.
RECURSIVE Concat(_)
Concat(qs) == IF qs = <<>> THEN <<>> ELSE Head(qs) \o Concat(Tail(qs))
SelectedByRule(month) ==
    IF NonEmpty(month.hourly_values_netted) THEN month.hourly_values_netted.items
    ELSE month.hourly_values.items
Selected(c) ==
    Concat([k \in 1..Len(responses[c].list) |->
              Concat([i \in 1..Len(responses[c].list[k]) |->
                        SelectedByRule(responses[c].list[k][i])])])
ValidReading(r) == r.v.type = "number" /\ r.t.kind = "time"
Priced(c, instant) ==
    \E i \in 1..Len(priceFetch[c].rows) : getTime(priceFetch[c].rows[i].timeStamp) = instant
Joinable(c, r) == ValidReading(r) /\ Priced(c, getTime(r.t))
Count(q, P(_)) == Cardinality({i \in 1..Len(q) : P(q[i])})

C18_LedgerIsTheJoin ==
    \A c \in Callers :
        Reconciled(c) =>
            /\ \A k \in 1..Len(Selected(c)) :
                  LET r == Selected(c)[k]
                      Same(x) == ValidReading(x) /\ getTime(x.t) = getTime(r.t)
                                    /\ RoundDiv(x.v.n, 10) = RoundDiv(r.v.n, 10)
                      OfR(e) == Stems(e, r)
                  IN  Joinable(c, r) => Count(Hourly(c), OfR) = Count(Selected(c), Same)
            /\ \A e \in Records(c) : Priced(c, getTime(e.timestamp))
            /\ \A e \in Records(c) :
                  \E i \in 1..Len(priceFetch[c].rows) :
                      /\ getTime(priceFetch[c].rows[i].timeStamp) = getTime(e.timestamp)
                      /\ \A j \in (i + 1)..Len(priceFetch[c].rows) :
                            getTime(priceFetch[c].rows[j].timeStamp) # getTime(e.timestamp)
                      /\ e.price_cents_per_kWh = priceFetch[c].rows[i].value

C18_Witness ==
    \E c \in Callers :
        /\ Reconciled(c) /\ Len(Hourly(c)) = 1
        /\ \E k \in 1..Len(Selected(c)) :
              ValidReading(Selected(c)[k]) /\ ~Priced(c, getTime(Selected(c)[k].t))

\* C19: every record of the ledger has cost_euros equal to its own
\* consumption_kWh times its own price_cents_per_kWh / 100, to 6 decimals.
C19_CostFromStoredFields ==
    \A c \in Callers :
        Reconciled(c) =>
            \A e \in Records(c) :
                e.cost_euros = RoundDiv(e.consumption_kWh * e.price_cents_per_kWh, 10)

\* C20: for every monthly summary of a returned dataset, totalCost equals the
\* sum of cost_euros over the hourly records of that month within 1e-6.
RECURSIVE SumCost(_)
SumCost(q) == IF q = <<>> THEN 0 ELSE Head(q).cost_euros + SumCost(Tail(q))
C20_MonthlyCostIsSum ==
    \A c \in Callers :
        Reconciled(c) =>
            \A i \in 1..Len(Monthly(c)) :
                LET OfMonth(e) == MonthKey(defn, getTime(e.timestamp)) = Monthly(c)[i].month
                    diff == Monthly(c)[i].totalCost - SumCost(SelectSeq(Hourly(c), OfMonth))
                IN  diff <= 1 /\ diff >= -1

\* The state usePriceData holds after a fetchData that delivered a dataset.
Delivered(c) == delivered[c] /\ pc[c] = "done" /\ shown.error = NoError
Zero == [kind |-> "number", n |-> 0]

\* C21: in every monthly summary that reaches the caller, in the dataset
\* combineData returns and in the monthly data recomputed when the margin is
\* applied, the average price is 0 whenever the total consumption is 0.
C21_ZeroGuardedAverage ==
    /\ \A c \in Callers :
          (pc[c] = "done" /\ result[c].kind = "data" /\ result[c].data.monthly.isArray) =>
              \A i \in 1..Len(Monthly(c)) :
                  Monthly(c)[i].totalConsumption = 0 => Monthly(c)[i].averagePrice = Zero
    /\ \A i \in 1..Len(shown.monthlyData) :
          shown.monthlyData[i].totalConsumption = 0 => shown.monthlyData[i].averagePrice = Zero

\* C22: the hourly sequence of every dataset combineData produces is
\* strictly ascending by timestamp, so no two records share a timestamp,
\* whatever the order and multiplicity of the readings and prices.
C22_HourlyStrictlyAscending ==
    \A c \in Callers :
        Reconciled(c) =>
            \A i, j \in 1..Len(Hourly(c)) :
                i < j => getTime(Hourly(c)[i].timestamp) < getTime(Hourly(c)[j].timestamp)

\* C23: the monthly sequence of every dataset combineData produces is
\* strictly ascending by month key, so no two summaries share a key, whatever
\* the order of the readings.
C23_MonthlyStrictlyAscending ==
    \A c \in Callers :
        Reconciled(c) =>
            \A i, j \in 1..Len(Monthly(c)) :
                i < j => Monthly(c)[i].month.month < Monthly(c)[j].month.month

\* The key the specification gives the month of an instant.  A ledger is
\* grouped by UTC month when every record has exactly one summary under the
\* key of its UTC month and the summary's consumption is the sum over the
\* records of that month, up to the rounding of the stored total.
UtcKey(instant) == [style |-> "YYYY-MM", month |-> UtcMonth(instant)]
RECURSIVE SumConsumption(_)
SumConsumption(q) == IF q = <<>> THEN 0 ELSE Head(q).consumption_kWh + SumConsumption(Tail(q))
GroupedByUtcMonth(hourly, monthly) ==
    /\ \A k \in 1..Len(hourly) :
          Cardinality({i \in 1..Len(monthly) :
                          monthly[i].month = UtcKey(getTime(hourly[k].timestamp))}) = 1
    /\ \A i \in 1..Len(monthly) :
          LET InMonth(e) == UtcKey(getTime(e.timestamp)) = monthly[i].month
              diff == monthly[i].totalConsumption - SumConsumption(SelectSeq(hourly, InMonth))
          IN  diff <= 5 /\ diff >= -5

\* C24: every hourly record is accumulated into exactly one monthly summary,
\* the one whose key is the UTC year-month of the record's timestamp, both in
\* the dataset combineData produces and in the monthly data recomputed when
\* the margin is applied; an hour near a month boundary counts in its UTC
\* month.
C24_GroupedByUtcMonth ==
    /\ \A c \in Callers : Reconciled(c) => GroupedByUtcMonth(Hourly(c), Monthly(c))
    /\ \A c \in Callers :
          (Reconciled(c) /\ Delivered(c) /\ shown.hourlyData # <<>>) =>
              GroupedByUtcMonth(shown.hourlyData, shown.monthlyData)

ParseableRows(raw) ==
    LET Parses(row) == row.timeStamp.kind = "time"
        good == SelectSeq(raw, Parses)
    IN  [i \in 1..Len(good) |->
            PriceRow(Stamp("isoZ", getTime(good[i].timeStamp), 0), WithVat(good[i].value))]

\* C26: a raw price entry whose timestamp does not parse is discarded and
\* nothing else: whenever the price provider answered with rows, the price
\* fetch succeeds, the join begins, and every other entry is there to be
\* looked up.
C26_BadPriceEntryDiscarded ==
    \A c \in Callers :
        (pc[c] = "done" /\ priceFetch[c].outcome \in {"ok", "malformed"}) =>
            /\ priceFetch[c].outcome = "ok"
            /\ joined[c]
            /\ priceFetch[c].rows = ParseableRows(priceFetch[c].raw)

\* The markup of the price source, in thousandths, and a raw value with the
\* markup applied once, to two decimals.
MarkupPermille == 255
MarkedUp(value) == RoundDiv(value * (1000 + MarkupPermille), 1000)
\* The raw values the price source holds for the current hour.
CurrentRawValues ==
    UNION {{o.data[i].value : i \in {k \in 1..Len(o.data) :
                                        getTime(o.data[k].timeStamp) = CurrentHour}} :
           o \in {x \in SpotOutcomes : x.kind = "data"}}

\* C27: every price used in the join is the raw value of the price source
\* with the fixed markup applied once, to two decimals, and the price of the
\* current hour carries the same markup.
C27_OneMarkup ==
    \A c \in Callers :
        /\ Reconciled(c) =>
              \A e \in Records(c) :
                  \E i \in 1..Len(priceFetch[c].raw) :
                      /\ getTime(priceFetch[c].raw[i].timeStamp) = getTime(e.timestamp)
                      /\ \A j \in (i + 1)..Len(priceFetch[c].raw) :
                            getTime(priceFetch[c].raw[j].timeStamp) # getTime(e.timestamp)
                      /\ e.price_cents_per_kWh = MarkedUp(priceFetch[c].raw[i].value)
        /\ currentSpotPrice[c].kind = "number" =>
              \E v \in CurrentRawValues : currentSpotPrice[c].n = MarkedUp(v)

\* The readings of the variant in use, as the provider sent them.
RawSelected(c) ==
    Concat([i \in 1..Len(received[c]) |-> SelectedByRule(received[c][i])])
\* The instant a raw timestamp describes: its wall clock less its offset.
InstantOf(t) == t.wall - t.offset

EmptyConsumption(c) ==
    /\ responses[c].returned
    /\ \A i \in 1..Len(responses[c].list) :
          \A j \in 1..Len(responses[c].list[i]) :
              /\ ~NonEmpty(responses[c].list[i][j].hourly_values_netted)
              /\ ~NonEmpty(responses[c].list[i][j].hourly_values)
    /\ \A j \in 1..Len(received[c]) :
          /\ ~NonEmpty(received[c][j].hourly_values_netted)
          /\ ~NonEmpty(received[c][j].hourly_values)

\* C29: when the consumption response is entirely empty and the price
\* fetch succeeded, combineData returns a dataset whose hourly and monthly
\* arrays are empty, and no error.
C29_EmptyConsumptionEmptyDataset ==
    \A c \in Callers :
        (EmptyConsumption(c) /\ priceFetch[c].outcome = "ok") =>
            /\ pc[c] = "done" /\ caught[c] = NoError
            /\ result[c].kind = "data"
            /\ result[c].data.hourly = ArrayOf(<<>>)
            /\ result[c].data.monthly = ArrayOf(<<>>)

C29_Witness ==
    \E c \in Callers :
        /\ EmptyConsumption(c) /\ priceFetch[c].outcome = "ok"
        /\ Len(priceFetch[c].rows) > 0
        /\ Len(received[c]) = 1
        /\ received[c][1].hourly_values_netted = Variant(<<>>)
        /\ received[c][1].hourly_values = Variant(<<>>)
        /\ result[c].kind = "data"

\* The blob of year y is a structurally valid dataset.
ValidBlob(b) == b.kind = "json" /\ IsValid(b.data)

\* C30: no step removes a structurally valid blob or puts something invalid
\* in its place; the session has no reset action, so a valid blob of a year
\* stays a valid blob of that year.
C30_ValidBlobKept ==
    [][\A y \in Years : ValidBlob(cache[y]) => ValidBlob(cache'[y])]_vars

\* The refresh of caller c ends in this step: fetchData makes its last setData.
RefreshEnds(c) == ~delivered[c] /\ delivered'[c]

\* C31: a refresh that ends while the cache holds a structurally valid
\* dataset of the selected year ends with a dataset of that year in the
\* state and no error.
C31_CachedYearIsDelivered ==
    [][\A c \in Callers :
          (RefreshEnds(c) /\ dirExists /\ ValidBlob(cache[year[c]])) =>
              (shown'.error = NoError /\ shownYear' = year[c])]_vars

\* The state holds the whole of dataset d: every record of d.hourly with the
\* margin added, and for exactly the months of these records a summary whose
\* average price is a number.
CompleteFrom(state, d, spotMargin) ==
    /\ d.hourly.isArray
    /\ ~state.isLoading
    /\ state.hourlyData = [i \in 1..Len(d.hourly.content) |-> WithMargin(d.hourly.content[i], spotMargin)]
    /\ \A i \in 1..Len(state.hourlyData) :
          \E j \in 1..Len(state.monthlyData) :
              state.monthlyData[j].month.month = LocalMonth(getTime(state.hourlyData[i].timestamp))
    /\ \A j \in 1..Len(state.monthlyData) :
          /\ state.monthlyData[j].averagePrice.kind = "number"
          /\ \E i \in 1..Len(state.hourlyData) :
                state.monthlyData[j].month.month = LocalMonth(getTime(state.hourlyData[i].timestamp))

\* C32: a refresh ends either with the whole of the one dataset combineData
\* returned in the state and no error, or with an error and the hourly and
\* monthly data the state held before.
C32_CompleteOrError ==
    [][\A c \in Callers :
          RefreshEnds(c) =>
              IF shown'.error = NoError
              THEN /\ result[c].kind = "data"
                   /\ \E m \in Margins : CompleteFrom(shown', result[c].data, m)
              ELSE /\ shown'.hourlyData = shown.hourlyData
                   /\ shown'.monthlyData = shown.monthlyData]_vars

\* Caller c is inside the makeRequestWithRetry call of request r.
InRequest(c, r) == pc[c] \in {"http", "backoff"} /\ req[c] = r
Requests == {"token", "customer", "readings"}

\* C33: when every HTTP attempt and every backoff timer completes, each call
\* of makeRequestWithRetry ends, and with it fetchConsumptionData and the
\* combineData call that made it.
C33_RequestsEnd ==
    /\ \A c \in Callers, r \in Requests : InRequest(c, r) ~> ~InRequest(c, r)
    /\ \A c \in Callers : Fetching(c) ~> pc[c] = "done"

C33_Witness ==
    \E c \in Callers :
        /\ pc[c] = "done" /\ req[c] = "readings"
        /\ sent[c] = maxRetries /\ attempt[c] = maxRetries - 1
        /\ caught[c] # NoError

\* C34: the lastUpdated of the valid blob stored for a year never moves
\* back: no write puts an earlier reconciliation over a later one.
C34_LastUpdatedNeverDecreases ==
    [][\A y \in Years :
          (ValidBlob(cache[y]) /\ ValidBlob(cache'[y])) =>
              ~DateLT(cache'[y].data.lastUpdated, cache[y].data.lastUpdated)]_vars

\* A combineData call started after the reset completed has begun to save.
SavedSinceReset == \E c \in Callers : startedAt[c] = "done" /\ spawned[c]

\* C35: once the reset has completed, and until a call started after it
\* saves, the cache directory does not exist and no year has a blob.
C35_NothingCachedAfterReset ==
    (resetPc = "done" /\ ~SavedSinceReset) =>
        (~dirExists /\ \A y \in Years : cache[y] = AbsentBlob)

\* C39: once the reset has completed, secure storage holds no password, the
\* stored settings hold no eleniaUsername and isOnboarded is false.
C39_NoCredentialAfterReset ==
    resetPc = "done" =>
        (~password /\ settings # "ok" /\ ~onboarded)

\* C37: a valid cached dataset of year Y whose lastUpdated lies within Y
\* is refetched by a combineData(Y) made on any later day, in year Y or
\* after it.
C37_DatasetOfOpenYearRefetched ==
    [][\A c \in Callers :
          (/\ pc[c] = "gc_read" /\ pc'[c] # "gc_read"
           /\ BlobRead(c).kind = "json"
           /\ IsValid(BlobRead(c).data)
           /\ BlobRead(c).data.lastUpdated.tag = "date"
           /\ BlobRead(c).data.lastUpdated.year = year[c]
           /\ DateLT(BlobRead(c).data.lastUpdated, now))
          => pc'[c] = "fc_settings"]_vars

\* The stored settings with a username and the stored password are there.
HasCredential == settings = "ok" /\ password
MissingCredentialErrors ==
    {Err("No settings found", 0), Err("No username found in settings", 0),
     Err("No password found", 0)}

\* C38: without stored settings, username or password fetchConsumptionData
\* throws and no request to the consumption provider is made; the request in
\* progress changes only from none to token, from token to customer data and
\* from customer data to meter readings, and the latter two only in the step
\* in which the previous request was answered with success.
C38_CredentialsThenOrderedRequests ==
    [][\A c \in Callers :
          /\ ~HasCredential =>
                /\ "consumption" \notin http'[c] /\ sent'[c] = 0 /\ req'[c] = "none"
                /\ (pc[c] \in {"fc_settings", "fc_password"} /\ pc'[c] \notin {"fc_settings", "fc_password"})
                      => (pc'[c] = "done" /\ caught'[c] \in MissingCredentialErrors)
          /\ req'[c] # req[c] =>
                \/ /\ req[c] = "none" /\ req'[c] = "token"
                   /\ pc[c] = "fc_password" /\ HasCredential
                \/ /\ req[c] = "token" /\ req'[c] = "customer"
                   /\ pc[c] = "http" /\ handed'[c] = 200
                \/ /\ req[c] = "customer" /\ req'[c] = "readings"
                   /\ pc[c] = "http" /\ handed'[c] = 200]_vars

C38_Witness ==
    \E c \in Callers :
        /\ pc[c] = "done" /\ req[c] = "readings"
        /\ handed[c] = 200 /\ responses[c].returned
        /\ HasCredential

\* No refresh is in flight, and the refresh of caller c ended with a dataset.
AllSettled == \A c \in Callers : pc[c] = "notCalled" \/ (pc[c] = "done" /\ delivered[c])
DeliveredData(c) ==
    /\ pc[c] = "done" /\ delivered[c]
    /\ result[c].kind = "data" /\ result[c].data.hourly.isArray

\* C36: when no refresh is in flight any more and a refresh for the year
\* selected last has delivered a dataset, the hourly and monthly data in the
\* state are those of that year.
C36_LatestYearShown ==
    (AllSettled /\ \E c \in Callers : year[c] = selectedYear /\ DeliveredData(c))
        => shownYear = selectedYear

====
